---- MODULE Spec2Model ----
(***************************************************************************)
(* Model of grib.py: the GFS retrieval-and-extraction pipeline.            *)
(*                                                                         *)
(* main iterates (date, zulu, forecast_hour), downloads one grib file per  *)
(* triple, opens it, starts one extract_grib_data thread per variable,     *)
(* joins them and optionally unlinks the grib file.                        *)
(*                                                                         *)
(* Python strings that the program parses or formats (dates, the zulu      *)
(* list, lead hours) are sequences of one-character strings; Cat turns     *)
(* them into one string when they are embedded in a file name.  A Path is  *)
(* the sequence of its components, rooted at the working directory.        *)
(***************************************************************************)
EXTENDS Integers, Sequences, FiniteSets, Bags, TLC

VARIABLES
    args,            \* Args: start_date, end_date, zulus, resolution, na_bounds, cleanup
    env,             \* the collaborators: bucket content, decoder, file system faults
    fs,              \* regular files on disk: Path -> content
    dirs,            \* directories on disk
    log,             \* records emitted through logging: a bag, their order left out
    calls,           \* the calls main made to its collaborators, in order
    pc,              \* position of main
    date_range,      \* main: date_range
    zulus,           \* main: zulus
    forecast_hours,  \* main: forecast_hours
    di, zi, hi,      \* positions of the three for loops of main
    grib_path,       \* main: grib_path (NoPath until first assigned)
    gribs,           \* main: gribs, the open pygrib handle (NoHandle until opened)
    threads,         \* main: threads, by var_index: state and arguments
    var_index,       \* main: position of the thread start loop
    ji,              \* main: position of the thread join loop
    call             \* a direct call of extract_grib_data: its arguments and outcome

vars == <<args, env, fs, dirs, log, calls, pc, date_range, zulus, forecast_hours,
          di, zi, hi, grib_path, gribs, threads, var_index, ji, call>>

----------------------------------------------------------------------------
(* Bounds of the model *)

\* number of lead hours of the program's list that a modelled run iterates
MaxHours == 3
\* number of consecutive calendar days the configured dates are drawn from
MaxDays == 2
\* largest number of rows, and of columns, of the grids drawn for direct calls
MaxGrid == 3

----------------------------------------------------------------------------
(* Strings and numbers *)

DigitChars == <<"0", "1", "2", "3", "4", "5", "6", "7", "8", "9">>

DigitVal(c) == CHOOSE d \in 0..9 : DigitChars[d + 1] = c

IsDigit(c) == \E d \in 0..9 : DigitChars[d + 1] = c

RECURSIVE Cat(_)
\* ''.join(chars)
Cat(chars) == IF chars = <<>> THEN "" ELSE Head(chars) \o Cat(Tail(chars))

RECURSIVE Str(_)
\* str(i) for i >= 0, as characters
Str(i) == IF i < 10 THEN <<DigitChars[i + 1]>>
          ELSE Str(i \div 10) \o <<DigitChars[(i % 10) + 1]>>

RECURSIVE ZFill(_, _)
\* left-pad with "0" up to the given width, never truncating
ZFill(chars, width) == IF Len(chars) >= width THEN chars
                       ELSE ZFill(<<"0">> \o chars, width)

\* f'{i:03d}'
Fmt03d(i) == ZFill(Str(i), 3)

RECURSIVE ParseInt(_)
\* int(chars) for a string of digits
ParseInt(chars) == IF chars = <<>> THEN 0
                   ELSE ParseInt(SubSeq(chars, 1, Len(chars) - 1)) * 10
                        + DigitVal(chars[Len(chars)])

\* range(start, stop, step) for step > 0
Range(start, stop, step) ==
    [k \in 1..(IF stop > start THEN (stop - start + step - 1) \div step ELSE 0)
        |-> start + (k - 1) * step]

RECURSIVE SplitFrom(_, _, _, _)
SplitFrom(chars, sep, i, cur) ==
    IF i > Len(chars) THEN <<cur>>
    ELSE IF chars[i] = sep THEN <<cur>> \o SplitFrom(chars, sep, i + 1, <<>>)
    ELSE SplitFrom(chars, sep, i + 1, Append(cur, chars[i]))

\* chars.split(sep): always at least one piece, pieces may be empty
Split(chars, sep) == SplitFrom(chars, sep, 1, <<>>)

----------------------------------------------------------------------------
(* Dates: a date is the number YYYYMMDD *)

IsLeap(y) == (y % 4 = 0 /\ y % 100 # 0) \/ y % 400 = 0

DaysInMonth(y, m) == IF m = 2 THEN (IF IsLeap(y) THEN 29 ELSE 28)
                     ELSE IF m \in {4, 6, 9, 11} THEN 30 ELSE 31

NextDay(d) ==
    LET y == d \div 10000
        m == (d \div 100) % 100
        dd == d % 100
    IN  IF dd < DaysInMonth(y, m) THEN d + 1
        ELSE IF m < 12 THEN y * 10000 + (m + 1) * 100 + 1
        ELSE (y + 1) * 10000 + 101

\* datetime.strptime(chars, '%Y%m%d') for a well-formed date
strptime(chars) == ParseInt(chars)

\* date.strftime("%Y%m%d")
strftime(d) == ZFill(Str(d \div 10000), 4) \o ZFill(Str((d \div 100) % 100), 2)
               \o ZFill(Str(d % 100), 2)

RECURSIVE DateRangeFrom(_, _)
\* a date range that holds its start date even when the end date precedes it
DateRangeFrom(start, end) == IF start >= end THEN <<start>>
                             ELSE <<start>> \o DateRangeFrom(NextDay(start), end)

RECURSIVE DateRange(_, _)
\* pd.date_range(start=start, end=end, freq='D'): empty when end < start
DateRange(start, end) == IF start > end THEN <<>>
                         ELSE <<start>> \o DateRange(NextDay(start), end)

----------------------------------------------------------------------------
(* Program constants *)

\* var_names
var_names == <<"2_metre_temperature", "surface_pressure", "geopotential_height_200",
               "geopotential_height_500", "geopotential_height_700">>

\* stop and step of the range the lead hours are generated from
HoursStop == 385
HoursStep == 3

\* geographical bounds for North America
lat_min == 15
lat_max == 60
lon_min == 220
lon_max == 305

bucket == "noaa-gfs-bdp-pds"

\* the whole list main builds: [f'{i:03d}' for i in range(0, 385, 3)]
AllForecastHours ==
    LET r == Range(0, HoursStop, HoursStep) IN [k \in DOMAIN r |-> Fmt03d(r[k])]

\* the part of it a modelled run iterates
ForecastHours ==
    SubSeq(AllForecastHours, 1,
           IF MaxHours < Len(AllForecastHours) THEN MaxHours ELSE Len(AllForecastHours))

----------------------------------------------------------------------------
(* Paths and the file system *)

NoPath == <<>>

\* Path('data').resolve(), relative to the working directory
DataRoot == <<"data">>

\* path / name
Join(path, name) == Append(path, name)

\* Path(path).name
BaseName(path) == path[Len(path)]

\* grib_path of a unit
GribPath(date_dir, zulu, resolution, forecast_hour) ==
    Join(date_dir, "gfs.t" \o Cat(zulu) \o "z.pgrb2." \o resolution \o ".f"
                   \o Cat(forecast_hour))

\* s3_file of a unit
S3File(date, zulu, resolution, forecast_hour) ==
    "gfs." \o Cat(strftime(date)) \o "/" \o Cat(zulu) \o "/atmos/gfs.t" \o Cat(zulu)
    \o "z.pgrb2." \o resolution \o ".f" \o Cat(forecast_hour)

\* the outcome of a step that may raise: err is "" when it did not
Ok(v) == [err |-> "", val |-> v]
Raise(e, v) == [err |-> e, val |-> v]

\* path.parent
Parent(path) == SubSeq(path, 1, Len(path) - 1)

\* os.mkdir(path) on the directories given: FileExistsError when the path is
\* there, FileNotFoundError when its parent is not, OSError when the directory
\* cannot be created; the working directory, parent of a one-component path, exists
OsMkdir(path, dirset) ==
    IF path \in dirset THEN Raise("FileExistsError", dirset)
    ELSE IF Len(path) > 1 /\ Parent(path) \notin dirset
         THEN Raise("FileNotFoundError", dirset)
    ELSE IF path \in env.mkdirFail THEN Raise("OSError", dirset)
    ELSE Ok(dirset \cup {path})

RECURSIVE Mkdir(_, _, _)
\* path.mkdir(parents=..., exist_ok=True) on the directories given, as pathlib does
\* it: os.mkdir; on FileNotFoundError with parents set, the parent first and then
\* the path again; FileExistsError of a directory is ignored.  The value holds the
\* directories there are afterwards, also when an exception is raised.
Mkdir(path, parents, dirset) ==
    LET made == OsMkdir(path, dirset)
    IN  IF made.err = "FileNotFoundError"
        THEN IF ~parents \/ Len(path) = 1 THEN made
             ELSE LET above == Mkdir(Parent(path), TRUE, dirset)
                  IN  IF above.err # "" THEN above
                      ELSE Mkdir(path, FALSE, above.val)
        ELSE IF made.err = "FileExistsError" THEN Ok(dirset)
        ELSE made

\* files[path] := content, creating or overwriting in place
WriteFile(files, path, content) ==
    [p \in DOMAIN files \cup {path} |-> IF p = path THEN content ELSE files[p]]

\* every file of the directory of path removed
RemoveTree(files, path) ==
    [p \in {q \in DOMAIN files :
               SubSeq(q, 1, Len(q) - 1) # SubSeq(path, 1, Len(path) - 1)} |-> files[p]]

\* the file removed
RemoveFile(files, path) == [p \in DOMAIN files \ {path} |-> files[p]]

\* np.save that appends to a file already there
NpSaveAppending(files, path, arr) ==
    IF path \in env.saveFail THEN Raise("OSError", files)
    ELSE IF path \in DOMAIN files THEN Ok(WriteFile(files, path, files[path] \o arr))
    ELSE Ok(WriteFile(files, path, arr))

\* np.save(path, arr): the new files, or OSError with the files unchanged
NpSave(files, path, arr) ==
    IF path \in env.saveFail THEN Raise("OSError", files)
    ELSE Ok(WriteFile(files, path, arr))

----------------------------------------------------------------------------
(* The decoded grid source *)

NoHandle == [name |-> NoPath, messages |-> <<>>]

\* what the bucket holds under a key: the messages of the grid file
RemoteContent(key) == [key |-> key, messages |-> env.messages]

\* grib.values of a message: one value per grid point, distinct per message and point
Values(msg) ==
    [r \in 1..Len(env.lats) |-> [c \in 1..Len(env.lons) |-> msg.id * 100 + r * 10 + c]]

\* grib.latlons(): latitude depends only on the row, longitude only on the column
LatLons(msg) ==
    <<[r \in 1..Len(env.lats) |-> [c \in 1..Len(env.lons) |-> env.lats[r]]],
      [r \in 1..Len(env.lats) |-> [c \in 1..Len(env.lons) |-> env.lons[c]]]>>

\* dispatch_table: the selection criteria per index
dispatch_table ==
    [i \in 0..4 |->
        CASE i = 0 -> [name |-> "2 metre temperature"]
          [] i = 1 -> [name |-> "Surface pressure"]
          [] i = 2 -> [name |-> "Geopotential height", level |-> 200]
          [] i = 3 -> [name |-> "Geopotential height", level |-> 500]
          [] i = 4 -> [name |-> "Geopotential height", level |-> 700]]

\* a message matches when every key given equals the message's
Matches(msg, kwargs) == \A k \in DOMAIN kwargs : msg[k] = kwargs[k]

\* grib_file.select(**kwargs): the matching messages in file order
Select(grib_file, kwargs) ==
    SelectSeq(grib_file.messages, LAMBDA m : Matches(m, kwargs))

----------------------------------------------------------------------------
(* Cropping, lines 74-84 *)

SetMin(S) == CHOOSE x \in S : \A y \in S : x <= y
SetMax(S) == CHOOSE x \in S : \A y \in S : x >= y

\* WhereWithin with the bounds themselves left out
WhereStrictlyWithin(vec, lower, upper) ==
    {k \in 0..(Len(vec) - 1) : vec[k + 1] > lower /\ vec[k + 1] < upper}

\* np.where(lo <= v <= hi)[0] over a vector: 0-based indices
WhereWithin(vec, lower, upper) ==
    {k \in 0..(Len(vec) - 1) : vec[k + 1] >= lower /\ vec[k + 1] <= upper}

\* grid[:, 0]
FirstColumn(grid) == [r \in 1..Len(grid) |-> grid[r][1]]

\* grid[0, :]
FirstRow(grid) == grid[1]

\* arr[r0:r1, c0:c1] for 0-based non-negative r0, c0 within a non-empty array
Slice(arr, r0, r1, c0, c1) ==
    LET rows == IF r1 < Len(arr) THEN r1 ELSE Len(arr)
        cols == IF c1 < Len(arr[1]) THEN c1 ELSE Len(arr[1])
    IN  [i \in 1..(IF rows > r0 THEN rows - r0 ELSE 0) |->
            [j \in 1..(IF cols > c0 THEN cols - c0 ELSE 0) |-> arr[r0 + i][c0 + j]]]

\* Crop that yields an empty array for an empty index array instead of raising
CropLenient(grib_data, grib_lats, grib_lons) ==
    LET lat_indices == WhereWithin(FirstColumn(grib_lats), lat_min, lat_max)
        lon_indices == WhereWithin(FirstRow(grib_lons), lon_min, lon_max)
    IN  IF lat_indices = {} \/ lon_indices = {} THEN Ok(<<>>)
        ELSE Ok(Slice(grib_data, SetMin(lat_indices), SetMax(lat_indices) + 1,
                      SetMin(lon_indices), SetMax(lon_indices) + 1))

\* the cropped data, or ValueError when np.min / np.max get an empty index array
Crop(grib_data, grib_lats, grib_lons) ==
    LET lat_indices == WhereWithin(FirstColumn(grib_lats), lat_min, lat_max)
        lon_indices == WhereWithin(FirstRow(grib_lons), lon_min, lon_max)
    IN  IF lat_indices = {} \/ lon_indices = {} THEN Raise("ValueError", <<>>)
        ELSE Ok(Slice(grib_data, SetMin(lat_indices), SetMax(lat_indices) + 1,
                      SetMin(lon_indices), SetMax(lon_indices) + 1))

----------------------------------------------------------------------------
(* Logging *)

LogRec(level, msg, ctx, err) == [level |-> level, msg |-> msg, ctx |-> ctx, err |-> err]

\* the log after the records of the sequence given were emitted
Emit(records, recs) ==
    records (+) [r \in {recs[k] : k \in DOMAIN recs} |->
                    Cardinality({k \in DOMAIN recs : recs[k] = r})]

Logged(r) == BagIn(r, log)

\* seq[i] with Python's indexing: i in -Len(seq)..Len(seq)-1
PyIndexOk(seq, i) == i >= -Len(seq) /\ i < Len(seq)
PyIndex(seq, i) == IF i >= 0 THEN seq[i + 1] ELSE seq[Len(seq) + i + 1]

----------------------------------------------------------------------------
(* extract_grib_data *)

\* data_dir of line 87
ExtractDataDir(date) == Join(DataRoot, Cat(strftime(date)))

\* binary_file without the variable name
BinaryFileUnnamed(grib_file, grib_index, date) ==
    Join(ExtractDataDir(date), BaseName(grib_file.name) \o ".npy")

\* binary_file of line 91
BinaryFile(grib_file, grib_index, date) ==
    Join(ExtractDataDir(date),
         BaseName(grib_file.name) \o "_" \o PyIndex(var_names, grib_index) \o ".npy")

\* lines 56-84 and 93-95: the array to be saved, or the exception raised before
\* anything is written
ExtractData(grib_file, grib_index, na_bounds) ==
    IF grib_index \notin DOMAIN dispatch_table THEN Raise("KeyError", <<>>)
    ELSE
    LET found == Select(grib_file, dispatch_table[grib_index])
    IN  IF found = <<>> THEN Raise("ValueError", <<>>)
        ELSE
        LET grib == found[1]
            grib_data == Values(grib)
            latlons == LatLons(grib)
        IN  IF na_bounds THEN Crop(grib_data, latlons[1], latlons[2])
            \* line 95 reads data_dir, which is assigned only in the other branch
            ELSE Raise("UnboundLocalError", <<>>)

\* lines 87-88
ExtractMkdir(date, dirset) == Mkdir(ExtractDataDir(date), TRUE, dirset)

\* lines 91-92
ExtractSave(grib_file, grib_index, date, arr, files) ==
    NpSave(files, BinaryFile(grib_file, grib_index, date), arr)

\* the body of the try block, lines 56-96: the exception raised ("" for none) and
\* the files and directories it leaves
ExtractTry(grib_file, grib_index, date, na_bounds, files, dirset) ==
    LET data == ExtractData(grib_file, grib_index, na_bounds)
    IN  IF data.err # "" THEN [err |-> data.err, fs |-> files, dirs |-> dirset]
        ELSE
        LET made == ExtractMkdir(date, dirset)
        IN  IF made.err # "" THEN [err |-> made.err, fs |-> files, dirs |-> made.val]
            ELSE
            LET saved == ExtractSave(grib_file, grib_index, date, data.val, files)
            IN  [err |-> saved.err, fs |-> saved.val, dirs |-> made.val]

\* the handler, lines 98-100, for the exception given ("" for none): the records
\* logged and the exception that leaves the function ("" when it returns); the
\* handler itself indexes var_names
ExtractHandler(err, grib_index, date, zulu, forecast_hour) ==
    IF err = "" THEN [log |-> <<>>, raised |-> ""]
    ELSE IF PyIndexOk(var_names, grib_index)
    THEN [raised |-> "",
          log |-> <<LogRec("ERROR", "Error extracting grib file",
                           <<date, zulu, forecast_hour, PyIndex(var_names, grib_index)>>,
                           err)>>]
    ELSE [log |-> <<>>, raised |-> "IndexError"]

\* the whole call: the files and directories it leaves, the records it logs, and
\* the exception that leaves the function ("" when it returns)
extract_grib_data(grib_file, grib_index, date, zulu, forecast_hour, na_bounds, files, dirset) ==
    LET body == ExtractTry(grib_file, grib_index, date, na_bounds, files, dirset)
        handled == ExtractHandler(body.err, grib_index, date, zulu, forecast_hour)
    IN  [fs |-> body.fs, dirs |-> body.dirs, log |-> handled.log, raised |-> handled.raised]

----------------------------------------------------------------------------
(* main *)

Slots == 0..(Len(var_names) - 1)

NoThread == [st |-> "unstarted", args |-> <<>>, exc |-> "", data |-> <<>>]

NoCall == [st |-> "none"]

\* the loop variables of main
date == date_range[di]
zulu == zulus[zi]
forecast_hour == forecast_hours[hi]
date_dir == Join(DataRoot, Cat(strftime(date)))

\* a call of main to a collaborator, made while processing the current unit:
\* s3.download_file(bucket, key, path), pygrib.open(path), the start of the thread
\* of a slot, Path(path).unlink()
CallRec(op, key, path, slot) ==
    [op |-> op, bucket |-> bucket, key |-> key, path |-> path, slot |-> slot,
     pos |-> <<di, zi, hi>>, date |-> date, zulu |-> zulu, forecast_hour |-> forecast_hour]

\* lines 115-133: start marker, data directory, date range, cycles, lead hours; an
\* exception of mkdir leaves main
MainStart ==
    /\ pc = "init"
    /\ log' = Emit(log, <<LogRec("INFO", "Starting run",
                                 <<args.start_date, args.end_date>>, "")>>)
    /\ LET made == Mkdir(DataRoot, FALSE, dirs)
       IN  /\ dirs' = made.val
           /\ IF made.err # ""
              THEN /\ pc' = "crashed"
                   /\ UNCHANGED <<date_range, zulus, forecast_hours, di>>
              ELSE /\ date_range' = DateRange(strptime(args.start_date),
                                              strptime(args.end_date))
                   /\ zulus' = Split(args.zulus, ",")
                   /\ forecast_hours' = ForecastHours
                   /\ di' = 1
                   /\ pc' = IF date_range' = <<>> THEN "finish" ELSE "date"
    /\ UNCHANGED <<args, env, fs, calls, zi, hi, grib_path, gribs, threads,
                   var_index, ji, call>>

\* lines 136-139: the date's directory; an exception of mkdir leaves main
DateDir ==
    /\ pc = "date"
    /\ LET made == Mkdir(date_dir, FALSE, dirs)
       IN  /\ dirs' = made.val
           /\ IF made.err # ""
              THEN /\ pc' = "crashed"
                   /\ UNCHANGED <<zi, hi>>
              \* lines 141-142: the first cycle and the first lead hour
              ELSE /\ pc' = "download"
                   /\ zi' = 1
                   /\ hi' = 1
    /\ UNCHANGED <<args, env, fs, log, calls, date_range, zulus, forecast_hours,
                   di, grib_path, gribs, threads, var_index, ji, call>>

\* lines 143-153: the download of one unit; a failure is logged and the loop continues
Download ==
    /\ pc = "download"
    /\ LET path == GribPath(date_dir, zulu, args.resolution, forecast_hour)
           s3_file == S3File(date, zulu, args.resolution, forecast_hour)
           info == LogRec("INFO", "Downloading grib file",
                          <<date, zulu, forecast_hour>>, "")
       IN  /\ grib_path' = path
           /\ calls' = Append(calls, CallRec("download_file", s3_file, path, -1))
           /\ IF s3_file \in env.noObject
              THEN /\ log' = Emit(log, <<info,
                                           LogRec("ERROR", "Error downloading grib file",
                                                  <<date, zulu, forecast_hour>>,
                                                  "ClientError")>>)
                   /\ fs' = fs
                   /\ pc' = "continue"
              ELSE /\ log' = Emit(log, <<info>>)
                   /\ fs' = WriteFile(fs, path, RemoteContent(s3_file))
                   /\ pc' = "open"
    /\ UNCHANGED <<args, env, dirs, date_range, zulus, forecast_hours, di, zi, hi,
                   gribs, threads, var_index, ji, call>>

\* lines 156-158: open the grib file; an exception of pygrib.open leaves main
Open ==
    /\ pc = "open"
    /\ calls' = Append(calls, CallRec("open", "", grib_path, -1))
    /\ IF grib_path \in env.openFail \/ grib_path \notin DOMAIN fs
       THEN /\ pc' = "crashed"
            /\ UNCHANGED <<gribs, threads, var_index>>
       ELSE /\ gribs' = [name |-> grib_path, messages |-> fs[grib_path].messages]
            /\ threads' = [i \in Slots |-> NoThread]
            /\ var_index' = 0
            /\ pc' = "start"
    /\ UNCHANGED <<args, env, fs, dirs, log, date_range, zulus,
                   forecast_hours, di, zi, hi, grib_path, ji, call>>

\* lines 159-162: create and start the thread of var_index
StartThread ==
    /\ pc = "start"
    /\ threads' = [threads EXCEPT ![var_index] =
                      [st |-> "running", exc |-> "", data |-> <<>>,
                       args |-> <<gribs, var_index, date, zulu, forecast_hour,
                                  args.na_bounds>>]]
    /\ var_index' = var_index + 1
    /\ pc' = IF var_index' = Len(var_names) THEN "join" ELSE "start"
    /\ ji' = 0
    /\ calls' = Append(calls, CallRec("start", "", grib_path, var_index))
    /\ UNCHANGED <<args, env, fs, dirs, log, date_range, zulus,
                   forecast_hours, di, zi, hi, grib_path, gribs, call>>

\* ThreadSelect in which a failed selection ends the sibling threads still live
ThreadSelectFailFast(i) ==
    /\ threads[i].st = "running"
    /\ LET a == threads[i].args
           data == ExtractData(gribs, a[2], a[6])
           handled == ExtractHandler(data.err, a[2], a[3], a[4], a[5])
       IN  /\ log' = Emit(log, handled.log)
           /\ threads' = [j \in Slots |->
                            IF j = i
                            THEN [threads[j] EXCEPT
                                     !.st = IF data.err = "" THEN "selected" ELSE "done",
                                     !.data = data.val, !.exc = handled.raised]
                            ELSE IF data.err # "" /\ threads[j].st \notin {"unstarted", "done"}
                            THEN [threads[j] EXCEPT !.st = "done", !.data = <<>>]
                            ELSE threads[j]]
    /\ UNCHANGED <<args, env, fs, dirs, calls, pc, date_range, zulus, forecast_hours,
                   di, zi, hi, grib_path, gribs, var_index, ji, call>>

\* the thread of slot i, lines 56-84: it queries the handle the threads share and
\* holds the array to save; an exception goes to the handler and ends the thread
ThreadSelect(i) ==
    /\ threads[i].st = "running"
    /\ LET a == threads[i].args
           data == ExtractData(gribs, a[2], a[6])
           handled == ExtractHandler(data.err, a[2], a[3], a[4], a[5])
       IN  /\ log' = Emit(log, handled.log)
           /\ threads' = [threads EXCEPT
                             ![i].st = IF data.err = "" THEN "selected" ELSE "done",
                             ![i].data = data.val, ![i].exc = handled.raised]
    /\ UNCHANGED <<args, env, fs, dirs, calls, pc, date_range, zulus, forecast_hours,
                   di, zi, hi, grib_path, gribs, var_index, ji, call>>

\* the thread of slot i, lines 87-88: the date's directory
ThreadMkdir(i) ==
    /\ threads[i].st = "selected"
    /\ LET a == threads[i].args
           made == ExtractMkdir(a[3], dirs)
           handled == ExtractHandler(made.err, a[2], a[3], a[4], a[5])
       IN  /\ dirs' = made.val
           /\ log' = Emit(log, handled.log)
           /\ threads' = [threads EXCEPT
                             ![i].st = IF made.err = "" THEN "made" ELSE "done",
                             ![i].data = IF made.err = "" THEN threads[i].data ELSE <<>>,
                             ![i].exc = handled.raised]
    /\ UNCHANGED <<args, env, fs, calls, pc, date_range, zulus, forecast_hours,
                   di, zi, hi, grib_path, gribs, var_index, ji, call>>

\* the thread of slot i, lines 91-92: the artifact; the thread ends
ThreadSave(i) ==
    /\ threads[i].st = "made"
    /\ LET a == threads[i].args
           saved == ExtractSave(a[1], a[2], a[3], threads[i].data, fs)
           handled == ExtractHandler(saved.err, a[2], a[3], a[4], a[5])
       IN  /\ fs' = saved.val
           /\ log' = Emit(log, handled.log)
           /\ threads' = [threads EXCEPT ![i].st = "done", ![i].data = <<>>,
                                         ![i].exc = handled.raised]
    /\ UNCHANGED <<args, env, dirs, calls, pc, date_range, zulus, forecast_hours,
                   di, zi, hi, grib_path, gribs, var_index, ji, call>>

\* Join1 that does not wait for the thread to end
JoinWithoutWaiting ==
    /\ pc = "join"
    /\ ji' = ji + 1
    /\ pc' = IF ji' = Len(var_names) THEN "cleanup" ELSE "join"
    /\ UNCHANGED <<args, env, fs, dirs, log, calls, date_range, zulus,
                   forecast_hours, di, zi, hi, grib_path, gribs, threads, var_index,
                   call>>

\* Join1 that joins the first thread only
JoinFirstOnly ==
    /\ pc = "join"
    /\ threads[ji].st = "done"
    /\ ji' = ji + 1
    /\ pc' = "cleanup"
    /\ UNCHANGED <<args, env, fs, dirs, log, calls, date_range, zulus,
                   forecast_hours, di, zi, hi, grib_path, gribs, threads, var_index,
                   call>>

\* lines 163-164: join the threads in the order they were started
Join1 ==
    /\ pc = "join"
    /\ threads[ji].st = "done"
    /\ ji' = ji + 1
    /\ pc' = IF ji' = Len(var_names) THEN "cleanup" ELSE "join"
    /\ UNCHANGED <<args, env, fs, dirs, log, calls, date_range, zulus,
                   forecast_hours, di, zi, hi, grib_path, gribs, threads, var_index,
                   call>>

\* Cleanup that keeps the grib file of a unit one of whose extractions failed
CleanupUnlessFailed ==
    /\ pc = "cleanup"
    /\ IF ~args.cleanup
          \/ \E i \in Slots, e \in {"ValueError", "OSError"} :
                 BagIn(LogRec("ERROR", "Error extracting grib file",
                              <<date, zulu, forecast_hour, var_names[i + 1]>>, e), log)
       THEN /\ pc' = "next"
            /\ UNCHANGED <<fs, log, calls>>
       ELSE /\ fs' = RemoveFile(fs, grib_path)
            /\ calls' = Append(calls, CallRec("unlink", "", grib_path, -1))
            /\ log' = Emit(log, <<LogRec("INFO", "Deleted processed file",
                                         <<grib_path>>, "")>>)
            /\ pc' = "next"
    /\ UNCHANGED <<args, env, dirs, date_range, zulus, forecast_hours,
                   di, zi, hi, grib_path, gribs, threads, var_index, ji, call>>

\* lines 167-169: unlink the grib file when cleanup is set; an exception of unlink
\* leaves main
Cleanup ==
    /\ pc = "cleanup"
    /\ IF ~args.cleanup
       THEN /\ pc' = "next"
            /\ UNCHANGED <<fs, log, calls>>
       ELSE IF grib_path \in env.unlinkFail \/ grib_path \notin DOMAIN fs
       THEN /\ pc' = "crashed"
            /\ calls' = Append(calls, CallRec("unlink", "", grib_path, -1))
            /\ UNCHANGED <<fs, log>>
       ELSE /\ fs' = RemoveFile(fs, grib_path)
            /\ calls' = Append(calls, CallRec("unlink", "", grib_path, -1))
            /\ log' = Emit(log, <<LogRec("INFO", "Deleted processed file",
                                         <<grib_path>>, "")>>)
            /\ pc' = "next"
    /\ UNCHANGED <<args, env, dirs, date_range, zulus, forecast_hours,
                   di, zi, hi, grib_path, gribs, threads, var_index, ji, call>>

\* Advance with the two inner loops exchanged: cycles inside lead hours
AdvanceCyclesInside ==
    /\ pc \in {"next", "continue"}
    /\ IF zi < Len(zulus)
       THEN /\ zi' = zi + 1
            /\ pc' = "download"
            /\ UNCHANGED <<hi, di>>
       ELSE IF hi < Len(forecast_hours)
       THEN /\ hi' = hi + 1
            /\ zi' = 1
            /\ pc' = "download"
            /\ UNCHANGED di
       ELSE IF di < Len(date_range)
       THEN /\ di' = di + 1
            /\ pc' = "date"
            /\ UNCHANGED <<zi, hi>>
       ELSE /\ pc' = "finish"
            /\ UNCHANGED <<di, zi, hi>>
    /\ UNCHANGED <<args, env, fs, dirs, log, calls, date_range, zulus,
                   forecast_hours, grib_path, gribs, threads, var_index, ji, call>>

\* Advance in which a failed download ends the loop over the lead hours of the
\* cycle, as a break in place of the continue of line 153 would
AdvanceBreaks ==
    /\ pc \in {"next", "continue"}
    /\ IF hi < Len(forecast_hours) /\ pc = "next"
       THEN /\ hi' = hi + 1
            /\ pc' = "download"
            /\ UNCHANGED <<zi, di>>
       ELSE IF zi < Len(zulus)
       THEN /\ zi' = zi + 1
            /\ hi' = 1
            /\ pc' = "download"
            /\ UNCHANGED di
       ELSE IF di < Len(date_range)
       THEN /\ di' = di + 1
            /\ pc' = "date"
            /\ UNCHANGED <<zi, hi>>
       ELSE /\ pc' = "finish"
            /\ UNCHANGED <<di, zi, hi>>
    /\ UNCHANGED <<args, env, fs, dirs, log, calls, date_range, zulus,
                   forecast_hours, grib_path, gribs, threads, var_index, ji, call>>

\* the three for statements, lines 136, 141, 142: the next unit, after the end of
\* the loop body or after continue
Advance ==
    /\ pc \in {"next", "continue"}
    /\ IF hi < Len(forecast_hours)
       THEN /\ hi' = hi + 1
            /\ pc' = "download"
            /\ UNCHANGED <<zi, di>>
       ELSE IF zi < Len(zulus)
       THEN /\ zi' = zi + 1
            /\ hi' = 1
            /\ pc' = "download"
            /\ UNCHANGED di
       ELSE IF di < Len(date_range)
       THEN /\ di' = di + 1
            /\ pc' = "date"
            /\ UNCHANGED <<zi, hi>>
       ELSE /\ pc' = "finish"
            /\ UNCHANGED <<di, zi, hi>>
    /\ UNCHANGED <<args, env, fs, dirs, log, calls, date_range, zulus,
                   forecast_hours, grib_path, gribs, threads, var_index, ji, call>>

\* line 171: end marker
MainEnd ==
    /\ pc = "finish"
    /\ log' = Emit(log, <<LogRec("INFO", "Ending run",
                                 <<args.start_date, args.end_date>>, "")>>)
    /\ pc' = "done"
    /\ UNCHANGED <<args, env, fs, dirs, calls, date_range, zulus, forecast_hours,
                   di, zi, hi, grib_path, gribs, threads, var_index, ji, call>>

\* extract_grib_data called directly, outside main, on an open handle
CallExtract ==
    /\ call.st = "ready"
    /\ LET r == extract_grib_data(call.grib_file, call.grib_index, call.date, call.zulu,
                                  call.forecast_hour, call.na_bounds, fs, dirs)
       IN  /\ fs' = r.fs
           /\ dirs' = r.dirs
           /\ log' = Emit(log, r.log)
           /\ call' = [call EXCEPT !.st = IF r.raised = "" THEN "returned" ELSE "raised",
                                   !.exc = r.raised]
    /\ UNCHANGED <<args, env, calls, pc, date_range, zulus, forecast_hours,
                   di, zi, hi, grib_path, gribs, threads, var_index, ji>>

Next ==
    \/ MainStart
    \/ DateDir
    \/ Download
    \/ Open
    \/ StartThread
    \/ \E i \in Slots : ThreadSelect(i)
    \/ \E i \in Slots : ThreadMkdir(i)
    \/ \E i \in Slots : ThreadSave(i)
    \/ Join1
    \/ Cleanup
    \/ Advance
    \/ MainEnd

----------------------------------------------------------------------------
(* Initial states: the configuration and the collaborators' behaviour *)

RECURSIVE DaysFrom(_, _)
DaysFrom(d, n) == IF n = 0 THEN <<>> ELSE <<d>> \o DaysFrom(NextDay(d), n - 1)

\* the calendar days the configured dates are drawn from; they span a month's end
Days == DaysFrom(20250131, MaxDays)

DateStrings == {strftime(Days[k]) : k \in DOMAIN Days}

\* "00", "06,00" and "00,00" as configured
ZuluConfigs == {<<"0", "0">>, <<"0", "6", ",", "0", "0">>, <<"0", "0", ",", "0", "0">>}

ZuluValues == {<<"0", "0">>, <<"0", "6">>}

HourSet == {ForecastHours[k] : k \in DOMAIN ForecastHours}

\* the messages of a complete grid file, in file order
AllMessages ==
    <<[id |-> 1, name |-> "Geopotential height", level |-> 850],
      [id |-> 2, name |-> "2 metre temperature", level |-> 2],
      [id |-> 3, name |-> "Geopotential height", level |-> 700],
      [id |-> 4, name |-> "Surface pressure", level |-> 0],
      [id |-> 5, name |-> "Geopotential height", level |-> 200],
      [id |-> 6, name |-> "Geopotential height", level |-> 500]>>

\* the message a slot's criteria select in a complete file
SlotMessage(i) == CHOOSE m \in 1..Len(AllMessages) : Matches(AllMessages[m], dispatch_table[i])

MessagesWithout(absent) == SelectSeq(AllMessages, LAMBDA m : m.id \notin absent)

DefaultLats == <<65, 60, 30, 10>>
DefaultLons == <<210, 220, 300, 310>>

KeysAtHour(h) == {S3File(Days[k], z, "1p00", h) : k \in DOMAIN Days, z \in ZuluValues}

PathsAtHour(h) ==
    {GribPath(Join(DataRoot, Cat(strftime(Days[k]))), z, "1p00", h) :
        k \in DOMAIN Days, z \in ZuluValues}

ArtifactsOfSlot(i) ==
    {BinaryFile([name |-> p], i, Days[k]) : p \in UNION {PathsAtHour(h) : h \in HourSet},
                                          k \in DOMAIN Days}

NoFaults == [noObject |-> {}, messages |-> AllMessages, lats |-> DefaultLats,
             lons |-> DefaultLons, openFail |-> {}, unlinkFail |-> {},
             mkdirFail |-> {}, saveFail |-> {}]

\* the keys main can ask the bucket for
AllKeys == UNION {KeysAtHour(h) : h \in HourSet}

\* what the bucket lacks when it holds the objects of the first lead hour only
FirstHourOnly == AllKeys \ KeysAtHour(ForecastHours[1])

\* whole runs: every date range and cycle list, against a bucket that holds no
\* object, or those of the last lead hour only; the files hold the field of slot 0
\* and none of the other slots
RunConfigs ==
    {<<[start_date |-> s, end_date |-> e, zulus |-> z, resolution |-> "1p00",
        na_bounds |-> TRUE, cleanup |-> c],
       [NoFaults EXCEPT !.noObject = n,
                        !.messages = MessagesWithout({SlotMessage(i) : i \in Slots \ {0}})]>> :
        s \in DateStrings, e \in DateStrings, z \in ZuluConfigs, c \in BOOLEAN,
        n \in {AllKeys, AllKeys \ KeysAtHour(ForecastHours[Len(ForecastHours)])}}

\* one cycle of one day, the first lead hour in the bucket: every set of missing
\* fields, or one artifact that cannot be saved, in both cropping modes and both
\* cleanup modes
UnitConfigs ==
    {<<[start_date |-> strftime(Days[1]), end_date |-> strftime(Days[1]),
        zulus |-> <<"0", "0">>, resolution |-> "1p00", na_bounds |-> b, cleanup |-> c],
       [NoFaults EXCEPT !.messages = MessagesWithout(f[1]), !.saveFail = f[2],
                        !.noObject = FirstHourOnly]>> :
        b \in BOOLEAN, c \in BOOLEAN,
        f \in {<<a, {}>> : a \in SUBSET {SlotMessage(i) : i \in Slots}}
              \cup {<<{}, ArtifactsOfSlot(i)>> : i \in Slots}}

\* one cycle of one day listed twice, so that the unit of the first lead hour is
\* processed twice: a complete file, or one that lacks the field of slot 2
RepeatConfigs ==
    {<<[start_date |-> strftime(Days[1]), end_date |-> strftime(Days[1]),
        zulus |-> <<"0", "0", ",", "0", "0">>, resolution |-> "1p00",
        na_bounds |-> TRUE, cleanup |-> c],
       [NoFaults EXCEPT !.messages = MessagesWithout(a), !.noObject = FirstHourOnly]>> :
        c \in BOOLEAN, a \in {{}, {SlotMessage(2)}}}

\* two cycles of one day with complete files, the first lead hour in the bucket:
\* units that succeed alternate with units whose download fails
PartialConfigs ==
    {<<[start_date |-> strftime(Days[1]), end_date |-> strftime(Days[1]),
        zulus |-> <<"0", "6", ",", "0", "0">>, resolution |-> "1p00",
        na_bounds |-> TRUE, cleanup |-> c],
       [NoFaults EXCEPT !.noObject = FirstHourOnly]>> : c \in BOOLEAN}

\* one cycle of one day with complete files, the bucket lacking the object of
\* the second lead hour: a download that fails between two units that succeed
GapConfigs ==
    {<<[start_date |-> strftime(Days[1]), end_date |-> strftime(Days[1]),
        zulus |-> <<"0", "0">>, resolution |-> "1p00", na_bounds |-> TRUE,
        cleanup |-> c],
       [NoFaults EXCEPT !.noObject = KeysAtHour(ForecastHours[2])]>> : c \in BOOLEAN}

\* the path of the directory of the second day
SecondDayDir == Join(DataRoot, Cat(strftime(Days[2])))

\* runs over two days with complete files in which a step outside every try block
\* raises: pygrib.open or unlink at the first or the last lead hour, or mkdir for
\* the second day, after a unit that succeeded or after a download that failed
CrashConfigs ==
    {<<[start_date |-> strftime(Days[1]), end_date |-> strftime(Days[2]),
        zulus |-> <<"0", "0">>, resolution |-> "1p00", na_bounds |-> TRUE,
        cleanup |-> TRUE],
       [NoFaults EXCEPT !.noObject = f[1], !.openFail = f[2], !.unlinkFail = f[3],
                        !.mkdirFail = f[4]]>> :
        f \in {<<{}, PathsAtHour(ForecastHours[1]), {}, {}>>,
               <<{}, PathsAtHour(ForecastHours[Len(ForecastHours)]), {}, {}>>,
               <<{}, {}, PathsAtHour(ForecastHours[1]), {}>>,
               <<KeysAtHour(ForecastHours[1]), {},
                 PathsAtHour(ForecastHours[Len(ForecastHours)]), {}>>,
               <<{}, {}, {}, {SecondDayDir}>>,
               <<KeysAtHour(ForecastHours[Len(ForecastHours)]), {}, {}, {SecondDayDir}>>}}

\* runs in which the data directory of line 119 cannot be created: every date
\* range, also the empty ones
StartupConfigs ==
    {<<[start_date |-> s, end_date |-> e, zulus |-> <<"0", "0">>, resolution |-> "1p00",
        na_bounds |-> TRUE, cleanup |-> TRUE],
       [NoFaults EXCEPT !.mkdirFail = {DataRoot}]>> :
        s \in DateStrings, e \in DateStrings}

\* the state before main is called with the configuration and collaborators given
InitWith(cfg) ==
    /\ args = cfg[1]
    /\ env = cfg[2]
    /\ fs = << >>
    /\ dirs = {}
    /\ log = EmptyBag
    /\ calls = <<>>
    /\ pc = "init"
    /\ date_range = <<>>
    /\ zulus = <<>>
    /\ forecast_hours = <<>>
    /\ di = 1
    /\ zi = 1
    /\ hi = 1
    /\ grib_path = NoPath
    /\ gribs = NoHandle
    /\ threads = [i \in Slots |-> NoThread]
    /\ var_index = 0
    /\ ji = 0
    /\ call = NoCall

Init ==
    \E cfg \in RunConfigs \cup UnitConfigs \cup RepeatConfigs \cup PartialConfigs
                 \cup GapConfigs \cup CrashConfigs \cup StartupConfigs :
        InitWith(cfg)

Spec == Init /\ [][Next]_vars

----------------------------------------------------------------------------
(* Direct calls of extract_grib_data *)

\* the non-empty vectors of at most MaxGrid coordinates
Vectors(values) == UNION {[1..n -> values] : n \in 1..MaxGrid}

\* coordinates outside, on and on the other side of the North American bounds
LatValues == {10, 15, 60, 70}
LonValues == {210, 220, 305, 310}

CallDate == Days[1]
CallPath == GribPath(Join(DataRoot, Cat(strftime(CallDate))), <<"0", "0">>, "1p00",
                     ForecastHours[1])

\* every grid for one slot; every index on the default grid with a complete
\* file or one that lacks the field of slot 2, cropping on and off, the date's
\* directory made or not; and every slot with the data directory, or the date's
\* directory, impossible to create, the data directory there or not
CallConfigs ==
    {[grib_index |-> 2, na_bounds |-> TRUE, lats |-> la, lons |-> lo,
      messages |-> AllMessages, mkdirFail |-> {},
      dirs |-> {DataRoot, Join(DataRoot, Cat(strftime(CallDate)))}] :
        la \in Vectors(LatValues), lo \in Vectors(LonValues)}
    \cup
    {[grib_index |-> i, na_bounds |-> b, lats |-> DefaultLats, lons |-> DefaultLons,
      messages |-> m, mkdirFail |-> {}, dirs |-> d] :
        i \in (-(Len(var_names) + 1))..Len(var_names), b \in BOOLEAN,
        m \in {AllMessages, MessagesWithout({SlotMessage(2)})},
        d \in {{}, {DataRoot, Join(DataRoot, Cat(strftime(CallDate)))}}}
    \cup
    {[grib_index |-> i, na_bounds |-> TRUE, lats |-> DefaultLats, lons |-> DefaultLons,
      messages |-> AllMessages, mkdirFail |-> {f}, dirs |-> d] :
        i \in Slots, f \in {DataRoot, Join(DataRoot, Cat(strftime(CallDate)))},
        d \in {{}, {DataRoot}}}

\* the state at the entry of the call: the handle is open; the grib file is on
\* disk where the date's directory is there to hold it
InitCallWith(cfg) ==
    /\ args = [start_date |-> strftime(CallDate), end_date |-> strftime(CallDate),
               zulus |-> <<"0", "0">>, resolution |-> "1p00",
               na_bounds |-> cfg.na_bounds, cleanup |-> FALSE]
    /\ env = [NoFaults EXCEPT !.lats = cfg.lats, !.lons = cfg.lons,
                              !.messages = cfg.messages, !.mkdirFail = cfg.mkdirFail]
    /\ fs = [p \in (IF Parent(CallPath) \in cfg.dirs THEN {CallPath} ELSE {}) |->
                 [key |-> S3File(CallDate, <<"0", "0">>, "1p00", ForecastHours[1]),
                  messages |-> cfg.messages]]
    /\ dirs = cfg.dirs
    /\ log = EmptyBag
    /\ calls = <<>>
    /\ pc = "direct"
    /\ date_range = <<>>
    /\ zulus = <<>>
    /\ forecast_hours = <<>>
    /\ di = 1
    /\ zi = 1
    /\ hi = 1
    /\ grib_path = NoPath
    /\ gribs = NoHandle
    /\ threads = [i \in Slots |-> NoThread]
    /\ var_index = 0
    /\ ji = 0
    /\ call = [st |-> "ready", exc |-> "",
               grib_file |-> [name |-> CallPath, messages |-> cfg.messages],
               grib_index |-> cfg.grib_index, date |-> CallDate, zulu |-> <<"0", "0">>,
               forecast_hour |-> ForecastHours[1], na_bounds |-> cfg.na_bounds]

InitCall == \E cfg \in CallConfigs : InitCallWith(cfg)

NextCall == CallExtract

SpecCall == InitCall /\ [][NextCall]_vars

----------------------------------------------------------------------------
(* Runs over the whole list of lead hours *)

\* lines 115-133 with the whole list of line 129 as forecast_hours
MainStartAllHours ==
    /\ pc = "init"
    /\ log' = Emit(log, <<LogRec("INFO", "Starting run",
                                 <<args.start_date, args.end_date>>, "")>>)
    /\ LET made == Mkdir(DataRoot, FALSE, dirs)
       IN  /\ dirs' = made.val
           /\ IF made.err # ""
              THEN /\ pc' = "crashed"
                   /\ UNCHANGED <<date_range, zulus, forecast_hours, di>>
              ELSE /\ date_range' = DateRange(strptime(args.start_date),
                                              strptime(args.end_date))
                   /\ zulus' = Split(args.zulus, ",")
                   /\ forecast_hours' = AllForecastHours
                   /\ di' = 1
                   /\ pc' = IF date_range' = <<>> THEN "finish" ELSE "date"
    /\ UNCHANGED <<args, env, fs, calls, zi, hi, grib_path, gribs, threads,
                   var_index, ji, call>>

\* one cycle of one day: the bucket holds no object of the cycle, or the object of
\* the first lead hour only
HoursConfigs ==
    {<<[start_date |-> strftime(Days[1]), end_date |-> strftime(Days[1]),
        zulus |-> <<"0", "0">>, resolution |-> "1p00", na_bounds |-> TRUE, cleanup |-> c],
       [NoFaults EXCEPT !.noObject =
           UNION {KeysAtHour(AllForecastHours[k]) : k \in DOMAIN AllForecastHours \ present}]>> :
        c \in BOOLEAN, present \in {{}, {1}}}

InitHours == \E cfg \in HoursConfigs : InitWith(cfg)

NextHours ==
    \/ MainStartAllHours
    \/ DateDir
    \/ Download
    \/ Open
    \/ StartThread
    \/ \E i \in Slots : ThreadSelect(i)
    \/ \E i \in Slots : ThreadMkdir(i)
    \/ \E i \in Slots : ThreadSave(i)
    \/ Join1
    \/ Cleanup
    \/ Advance
    \/ MainEnd

SpecHours == InitHours /\ [][NextHours]_vars

----------------------------------------------------------------------------
(* Vocabulary of the properties *)

DownloadCalls == {k \in DOMAIN calls : calls[k].op = "download_file"}

DownloadFailed(c) == c.key \in env.noObject

\* the paths of the grib files main has downloaded to
GribFiles == {calls[k].path : k \in DownloadCalls}

\* the calls made for the unit at the loop position given
CallsAt(pos, op) == {k \in DOMAIN calls : calls[k].op = op /\ calls[k].pos = pos}

\* the triple a comes before the triple b: dates ascending, then cycles by their
\* place in the configured list, then lead hours ascending by their value
TripleBefore(a, b) ==
    \/ a.date < b.date
    \/ /\ a.date = b.date
       /\ \/ a.pos[2] < b.pos[2]
          \/ /\ a.pos[2] = b.pos[2]
             /\ ParseInt(a.forecast_hour) < ParseInt(b.forecast_hour)

\* the threads that were started and have not ended
Running == {i \in Slots : threads[i].st \notin {"unstarted", "done"}}

ThreadTriple(i) == <<threads[i].args[3], threads[i].args[4], threads[i].args[5]>>

ExtractError(d, z, h, i) ==
    \E e \in {"KeyError", "ValueError", "UnboundLocalError", "OSError",
              "FileNotFoundError"} :
        Logged(LogRec("ERROR", "Error extracting grib file", <<d, z, h, var_names[i + 1]>>, e))

\* the field each slot is documented to extract: name and level of the message
SlotField ==
    [i \in Slots |->
        CASE i = 0 -> [name |-> "2 metre temperature", level |-> 2]
          [] i = 1 -> [name |-> "Surface pressure", level |-> 0]
          [] i = 2 -> [name |-> "Geopotential height", level |-> 200]
          [] i = 3 -> [name |-> "Geopotential height", level |-> 500]
          [] i = 4 -> [name |-> "Geopotential height", level |-> 700]]

\* the messages of a grid source that hold the field of slot i
FieldsOf(source, i) ==
    {k \in DOMAIN source.messages :
        /\ source.messages[k].name = SlotField[i].name
        /\ source.messages[k].level = SlotField[i].level}

\* the artifact of slot i of the unit whose grib file is at path
ArtifactPath(path, d, i) ==
    Join(Join(DataRoot, Cat(strftime(d))), path[Len(path)] \o "_" \o var_names[i + 1] \o ".npy")

\* rows and columns of the grid within the North American bounds (1-based)
RowsWithin == {r \in DOMAIN env.lats : lat_min <= env.lats[r] /\ env.lats[r] <= lat_max}
ColsWithin == {c \in DOMAIN env.lons : lon_min <= env.lons[c] /\ env.lons[c] <= lon_max}

\* the files on disk that are not the grib file of a unit main has downloaded
ArtifactsIn(files, cs) ==
    [p \in {q \in DOMAIN files : \A k \in DOMAIN cs : cs[k].path # q} |-> files[p]]

\* main is processing a unit whose grib file it has downloaded before in this run
SecondPass ==
    /\ pc \in {"open", "start", "join", "cleanup", "next"}
    /\ \E j \in DownloadCalls, k \in DownloadCalls :
          /\ j < k
          /\ calls[k].pos = <<di, zi, hi>>
          /\ calls[j].key = calls[k].key
          /\ ~DownloadFailed(calls[j])

DownloadError(d, z, h) ==
    Logged(LogRec("ERROR", "Error downloading grib file", <<d, z, h>>, "ClientError"))

----------------------------------------------------------------------------
(* Properties *)

\* C1: the download attempts of a run occur in lexicographic order of (date,
\* cycle, lead hour): dates ascending, cycles in the order the configuration lists
\* them, lead hours ascending; no attempt comes before one that precedes it.
C1_DownloadOrder ==
    \A j \in DownloadCalls, k \in DownloadCalls :
        /\ calls[j].zulu = Split(args.zulus, ",")[calls[j].pos[2]]
        /\ j < k => TripleBefore(calls[j], calls[k])

\* a finished run over two dates and a cycle list given in descending order
C1_Witness ==
    /\ pc = "done"
    /\ Len(zulus) = 2
    /\ ParseInt(zulus[1]) > ParseInt(zulus[2])
    /\ \E j \in DownloadCalls, k \in DownloadCalls : calls[j].date < calls[k].date
    /\ \E j \in DownloadCalls, k \in DownloadCalls :
          /\ calls[j].date = calls[k].date
          /\ calls[j].zulu # calls[k].zulu
    /\ Cardinality(DownloadCalls) = 2 * 2 * Len(forecast_hours)

\* C2: units are never processed concurrently: every live extraction thread
\* belongs to the unit main is processing, and when the download of the next unit
\* is about to start no thread is live and the previous unit, if it was
\* downloaded, has had its cleanup (the unlink when cleanup is set).
C2_UnitsSequential ==
    /\ \A i \in Running :
          /\ pc \in {"start", "join"}
          /\ ThreadTriple(i) = <<date, zulu, forecast_hour>>
          /\ threads[i].args[1].name = grib_path
    /\ (pc \in {"date", "download"} /\ calls # <<>>) =>
          LET last == calls[Len(calls)]
          IN  /\ Running = {}
              /\ \/ last.op = "download_file" /\ DownloadFailed(last)
                 \/ /\ args.cleanup
                    /\ last.op = "unlink"
                    /\ last.path \notin DOMAIN fs
                    /\ \A i \in Slots : threads[i].st = "done"
                 \/ /\ ~args.cleanup
                    /\ last.op = "start"
                    /\ \A i \in Slots : threads[i].st = "done"

\* two threads of the second unit of a run are live at once
C2_Witness ==
    /\ Cardinality(DownloadCalls) >= 2
    /\ Cardinality(Running) >= 2

\* the loop position that follows the position given in the three for statements
NextPos(p) ==
    IF p[3] < Len(forecast_hours) THEN <<p[1], p[2], p[3] + 1>>
    ELSE IF p[2] < Len(zulus) THEN <<p[1], p[2] + 1, 1>>
    ELSE <<p[1] + 1, 1, 1>>

\* the position of the last triple of the run
LastPos == <<Len(date_range), Len(zulus), Len(forecast_hours)>>

\* the call is the download of the triple at the position given
DownloadOf(c, p) ==
    /\ c.op = "download_file"
    /\ c.pos = p
    /\ c.date = date_range[p[1]]
    /\ c.zulu = zulus[p[2]]
    /\ c.forecast_hour = forecast_hours[p[3]]
    /\ c.key = S3File(date_range[p[1]], zulus[p[2]], args.resolution, forecast_hours[p[3]])

\* C3: a failed download is logged with its date, cycle and lead hour; no
\* thread is started, nothing is opened and no unlink is attempted for that unit,
\* and nothing is left at its path; the very next call main makes is the download
\* of the triple that follows it in the order of the loops (the next lead hour of
\* the cycle, else the first lead hour of the next cycle, else of the next date),
\* and until that call main is on its way to it: at the continue, whose step is
\* enabled, at that download, or at the directory of the next date (whose mkdir,
\* outside every try block, may leave main: C7); after the last triple main goes
\* to the end marker.  A unit whose download succeeded and whose threads were
\* joined has, per slot, its artifact or a logged extraction error.
C3_DownloadFailureIsolated ==
    \A k \in DownloadCalls :
        LET c == calls[k]
            following == NextPos(c.pos)
        IN  IF DownloadFailed(c)
            THEN /\ DownloadError(c.date, c.zulu, c.forecast_hour)
                 /\ CallsAt(c.pos, "start") = {}
                 /\ CallsAt(c.pos, "open") = {}
                 /\ CallsAt(c.pos, "unlink") = {}
                 /\ c.path \notin DOMAIN fs
                 /\ IF k < Len(calls)
                    THEN /\ c.pos # LastPos
                         /\ DownloadOf(calls[k + 1], following)
                    ELSE IF c.pos = LastPos
                    THEN /\ pc \in {"continue", "finish", "done"}
                         /\ pc = "continue" => ENABLED Advance
                    ELSE \/ pc = "continue" /\ <<di, zi, hi>> = c.pos /\ ENABLED Advance
                         \/ pc = "download" /\ <<di, zi, hi>> = following
                         \/ /\ pc \in {"date", "crashed"}
                            /\ following[1] = c.pos[1] + 1
                            /\ di = following[1]
            ELSE (\E n \in DownloadCalls : n > k) \/ pc \in {"next", "finish", "done"} =>
                 /\ Cardinality(CallsAt(c.pos, "start")) = Len(var_names)
                 /\ \A i \in Slots :
                       \/ BinaryFile([name |-> c.path], i, c.date) \in DOMAIN fs
                       \/ ExtractError(c.date, c.zulu, c.forecast_hour, i)

\* a finished run of one cycle in which the download of the second lead hour
\* failed and those of the first and the third succeeded: the failure is logged,
\* the five artifacts of the first and of the third lead hour are on disk, and
\* none of the second
C3_Witness ==
    /\ pc = "done"
    /\ Len(calls) >= 3
    /\ \E k \in DownloadCalls :
          /\ k > 1 /\ k < Len(calls)
          /\ DownloadFailed(calls[k])
          /\ DownloadError(calls[k].date, calls[k].zulu, calls[k].forecast_hour)
          /\ calls[k + 1].op = "download_file"
          /\ ~DownloadFailed(calls[k + 1])
          /\ calls[k + 1].pos = <<calls[k].pos[1], calls[k].pos[2], calls[k].pos[3] + 1>>
          /\ \E j \in DownloadCalls :
                /\ j < k
                /\ ~DownloadFailed(calls[j])
                /\ calls[j].pos = <<calls[k].pos[1], calls[k].pos[2], calls[k].pos[3] - 1>>
                /\ \A i \in Slots :
                      /\ BinaryFile([name |-> calls[j].path], i, calls[j].date) \in DOMAIN fs
                      /\ BinaryFile([name |-> calls[k + 1].path], i, calls[k + 1].date)
                            \in DOMAIN fs
                      /\ BinaryFile([name |-> calls[k].path], i, calls[k].date)
                            \notin DOMAIN fs

\* C4: barrier: main leaves the join loop of a unit, and the grib file of the unit
\* is unlinked, only when all five threads of the unit have ended, whether their
\* extraction succeeded or failed; while a thread of the unit has not ended the
\* file is on disk.
C4_Barrier ==
    /\ pc \in {"cleanup", "next"} =>
          \A i \in Slots :
              /\ threads[i].st = "done"
              /\ ThreadTriple(i) = <<date, zulu, forecast_hour>>
    /\ (pc \in {"start", "join"} /\ \E i \in Slots : threads[i].st # "done") =>
          /\ grib_path \in DOMAIN fs
          /\ CallsAt(<<di, zi, hi>>, "unlink") = {}
    /\ \A k \in DOMAIN calls :
          (calls[k].op = "unlink" /\ k = Len(calls) /\ pc \in {"next", "crashed"}) =>
              \A i \in Slots : threads[i].st = "done"

\* main waits in the join loop while one thread has ended with a logged failure
\* and another is still running
C4_Witness ==
    /\ pc = "join"
    /\ \E i \in Slots, j \in Slots :
          /\ threads[i].st = "done"
          /\ ExtractError(date, zulu, forecast_hour, i)
          /\ threads[j].st = "running"
    /\ grib_path \in DOMAIN fs


\* C5: per-variable failure isolation: as soon as the thread of a slot has ended,
\* whatever its siblings did or are doing, the slot has an extraction error logged
\* with date, cycle, lead hour and variable exactly if one of its steps fails (no
\* field matches, the crop window is empty, the artifact cannot be saved, or
\* cropping is off and line 95 raises), and otherwise its artifact is on disk.
C5_FailureIsolation ==
    \A i \in Slots :
        (threads[i].st = "done" /\ pc \in {"start", "join", "cleanup", "next"}) =>
            LET a == threads[i].args
                artifact == ArtifactPath(a[1].name, a[3], i)
                fails == \/ FieldsOf(a[1], i) = {}
                         \/ artifact \in env.saveFail
                         \/ ~a[6]
                         \/ RowsWithin = {} \/ ColsWithin = {}
            IN  /\ fails <=> ExtractError(a[3], a[4], a[5], i)
                /\ fails <=> artifact \notin DOMAIN fs

\* the field of slot 2 is missing: slot 2 alone is reported, the four others have
\* their artifacts, and main is past the join loop
C5_Witness ==
    /\ pc = "cleanup"
    /\ ExtractError(date, zulu, forecast_hour, 2)
    /\ ArtifactPath(grib_path, date, 2) \notin DOMAIN fs
    /\ \A i \in Slots \ {2} :
          /\ ~ExtractError(date, zulu, forecast_hour, i)
          /\ ArtifactPath(grib_path, date, i) \in DOMAIN fs

\* C6: cleanup contract: when main has finished a unit whose download succeeded,
\* the grib file is absent exactly if cleanup is set, however many extractions of
\* the unit failed; with cleanup off, every downloaded grib file stays on disk with
\* the content that was downloaded.
C6_CleanupContract ==
    /\ pc = "next" => (grib_path \notin DOMAIN fs <=> args.cleanup)
    /\ ~args.cleanup =>
          \A k \in DownloadCalls :
              ~DownloadFailed(calls[k]) =>
                  /\ calls[k].path \in DOMAIN fs
                  /\ fs[calls[k].path] = [key |-> calls[k].key, messages |-> env.messages]

\* a unit with cleanup set ends with its grib file removed although some of its
\* extractions failed and others succeeded
C6_Witness ==
    /\ pc = "next"
    /\ args.cleanup
    /\ grib_path \notin DOMAIN fs
    /\ \E i \in Slots, j \in Slots :
          /\ ExtractError(date, zulu, forecast_hour, i)
          /\ ArtifactPath(grib_path, date, j) \in DOMAIN fs

\* C7: once the loop has started no error is fatal: no exception leaves main
\* after the date range was built and found non-empty, and a run that has ended
\* has attempted every triple and logged 'Ending run'.
C7_NoFatalError ==
    /\ ~(pc = "crashed" /\ date_range # <<>>)
    /\ pc = "done" =>
          /\ Cardinality(DownloadCalls)
                = Len(date_range) * Len(zulus) * Len(forecast_hours)
          /\ Logged(LogRec("INFO", "Ending run", <<args.start_date, args.end_date>>, ""))

\* C8: full-grid mode: with na_bounds false, a slot whose field is found has, once
\* its extraction has ended, an artifact holding the field's whole value grid.
C8_FullGridArtifact ==
    \A i \in Slots :
        (/\ threads[i].st = "done"
         /\ pc \in {"start", "join", "cleanup", "next"}
         /\ ~threads[i].args[6]
         /\ FieldsOf(threads[i].args[1], i) # {}) =>
            LET a == threads[i].args
                artifact == ArtifactPath(a[1].name, a[3], i)
                field == a[1].messages[SetMin(FieldsOf(a[1], i))]
            IN  /\ artifact \in DOMAIN fs
                /\ fs[artifact] = Values(field)


\* C9: cropping correctness: on a regular grid with at least one row and one
\* column within the bounds, the artifact of a cropped extraction whose directory
\* could be made is exactly the
\* sub-array of rows rmin..rmax and columns cmin..cmax of the field, rmin/rmax
\* (cmin/cmax) the smallest/largest row (column) whose latitude (longitude) lies
\* within the bounds, a coordinate equal to a bound included.
C9_CropRectangle ==
    (/\ call.st = "returned"
     /\ call.na_bounds
     /\ call.grib_index \in Slots
     /\ FieldsOf(call.grib_file, call.grib_index) # {}
     /\ RowsWithin # {}
     /\ ColsWithin # {}
     /\ ~Logged(LogRec("ERROR", "Error extracting grib file",
                       <<call.date, call.zulu, call.forecast_hour,
                         var_names[call.grib_index + 1]>>, "OSError"))) =>
        LET artifact == ArtifactPath(call.grib_file.name, call.date, call.grib_index)
            field == call.grib_file.messages[SetMin(FieldsOf(call.grib_file,
                                                             call.grib_index))]
            rmin == SetMin(RowsWithin)
            rmax == SetMax(RowsWithin)
            cmin == SetMin(ColsWithin)
            cmax == SetMax(ColsWithin)
        IN  /\ artifact \in DOMAIN fs
            /\ fs[artifact] =
                  [r \in 1..(rmax - rmin + 1) |->
                      [c \in 1..(cmax - cmin + 1) |->
                          field.id * 100 + (rmin + r - 1) * 10 + (cmin + c - 1)]]

\* a grid whose last two rows lie on lat_max and lat_min and whose last two
\* columns lie on lon_min and lon_max is cropped to those two rows and columns
C9_Witness ==
    /\ call.st = "returned"
    /\ call.na_bounds
    /\ env.lats = <<70, 60, 15>>
    /\ env.lons = <<210, 220, 305>>
    /\ LET artifact == ArtifactPath(call.grib_file.name, call.date, call.grib_index)
       IN  /\ artifact \in DOMAIN fs
           /\ Len(fs[artifact]) = 2
           /\ Len(fs[artifact][1]) = 2

\* C10: idempotence: while main processes a unit it has already downloaded and
\* processed in this run, against the same remote content, no step changes the
\* set of artifact paths or the content of any artifact: the second pass
\* overwrites in place with identical content and adds or appends nothing.
C10_Idempotent ==
    [][SecondPass => ArtifactsIn(fs', calls') = ArtifactsIn(fs, calls)]_vars

\* the second pass over a unit has ended: one slot failed again, the others have
\* rewritten their artifacts
C10_Witness ==
    /\ SecondPass
    /\ pc = "next"
    /\ \E i \in Slots, j \in Slots :
          /\ ExtractError(date, zulu, forecast_hour, i)
          /\ ArtifactPath(grib_path, date, j) \in DOMAIN fs

\* C11: extract_grib_data never raises to its caller: for every index, within
\* 0..4 or not, the call returns, and a call that wrote no artifact has logged the
\* failure with date, cycle, lead hour and variable name.
C11_NeverRaises ==
    /\ call.st # "raised"
    /\ call.st = "returned" =>
          \/ /\ call.grib_index \in Slots
             /\ ArtifactPath(call.grib_file.name, call.date, call.grib_index)
                   \in DOMAIN fs
          \/ \E e \in {"KeyError", "ValueError", "UnboundLocalError", "OSError",
                       "FileNotFoundError"} :
                Logged(LogRec("ERROR", "Error extracting grib file",
                              <<call.date, call.zulu, call.forecast_hour,
                                PyIndex(var_names, call.grib_index)>>, e))

\* no value occurs twice in the sequence
DuplicateFree(seq) == \A a \in DOMAIN seq, b \in DOMAIN seq : a # b => seq[a] # seq[b]

\* the download attempts made for the triple given
AttemptsOf(d, z, h) ==
    {k \in DownloadCalls :
        calls[k].date = d /\ calls[k].zulu = z /\ calls[k].forecast_hour = h}

\* the threads started for slot i of the unit of the download attempt k
StartsOf(k, i) == {n \in CallsAt(calls[k].pos, "start") : calls[n].slot = i}

\* the run has ended, by returning from main or by an exception leaving it
RunEnded == pc \in {"done", "crashed"}

\* C12: no retries and exact fan-out: with a cycle list free of duplicates, no
\* triple is ever downloaded twice and no slot of a unit is ever started twice or
\* started after a failed download; and when the run has ended every triple of the
\* run has exactly one download attempt and every triple whose download succeeded
\* has exactly one thread started per slot 0..4.
C12_ExactFanOut ==
    DuplicateFree(Split(args.zulus, ",")) =>
        /\ \A k \in DownloadCalls :
              /\ Cardinality(AttemptsOf(calls[k].date, calls[k].zulu,
                                        calls[k].forecast_hour)) = 1
              /\ \A n \in CallsAt(calls[k].pos, "start") : calls[n].slot \in Slots
              /\ \A i \in Slots :
                    Cardinality(StartsOf(k, i)) <= (IF DownloadFailed(calls[k]) THEN 0 ELSE 1)
        /\ RunEnded =>
              /\ \A a \in DOMAIN date_range, b \in DOMAIN zulus, c \in DOMAIN forecast_hours :
                    Cardinality(AttemptsOf(date_range[a], zulus[b], forecast_hours[c])) = 1
              /\ \A k \in DownloadCalls :
                    ~DownloadFailed(calls[k]) =>
                        \A i \in Slots : Cardinality(StartsOf(k, i)) = 1

\* the thread starts main has made
StartCalls == {k \in DOMAIN calls : calls[k].op = "start"}

\* the destination path extract_grib_data computes for the thread started by call k
Destination(k) == BinaryFile([name |-> calls[k].path], calls[k].slot, calls[k].date)

\* the destination path of the live or ended thread of slot i
ThreadDestination(i) == BinaryFile(threads[i].args[1], threads[i].args[2], threads[i].args[3])

\* C13: no write contention: the destination path of an artifact is injective in
\* (date, cycle, lead hour, slot): the threads started in a run have as many
\* distinct destinations as distinct (date, cycle, lead hour, slot); the threads
\* of a unit have pairwise distinct destinations; and no destination is the path
\* of a grib file main downloads.
C13_DistinctPaths ==
    LET destinations == {Destination(k) : k \in StartCalls}
        started == {i \in Slots : threads[i].st # "unstarted"}
    IN  /\ Cardinality(destinations)
              = Cardinality({<<calls[k].date, calls[k].zulu, calls[k].forecast_hour,
                               calls[k].slot>> : k \in StartCalls})
        /\ Cardinality({ThreadDestination(i) : i \in started}) = Cardinality(started)
        /\ destinations \cap GribFiles = {}

\* the five threads of the second downloaded unit of a run have ended and their
\* five artifacts are on disk next to those of the first and the two grib files
C13_Witness ==
    /\ pc = "cleanup"
    /\ Cardinality({k \in DownloadCalls : ~DownloadFailed(calls[k])}) = 2
    /\ ~args.cleanup
    /\ Cardinality({ThreadDestination(i) : i \in Slots} \cap DOMAIN fs) = Len(var_names)
    /\ Cardinality(DOMAIN fs) = 2 * Len(var_names) + 2

\* C14: the system never deletes an extracted artifact: in every step the files
\* removed are at most the grib file of the unit main is processing, removed by
\* the cleanup of that unit when cleanup is set, and every artifact on disk before
\* the step is on disk after it.
C14_ArtifactsKept ==
    [][LET removed == DOMAIN fs \ DOMAIN fs'
       IN  /\ removed \subseteq {grib_path}
           /\ removed \cap (DOMAIN fs \ GribFiles) = {}
           /\ removed # {} =>
                 /\ pc = "cleanup"
                 /\ args.cleanup
                 /\ \E k \in CallsAt(<<di, zi, hi>>, "download_file") :
                        calls[k].path = grib_path]_vars

\* the cleanup of the second downloaded unit of a run has removed its grib file;
\* the ten artifacts of the two units are all that is on disk
C14_Witness ==
    /\ pc = "next"
    /\ args.cleanup
    /\ Cardinality({k \in DownloadCalls : ~DownloadFailed(calls[k])}) = 2
    /\ grib_path \notin DOMAIN fs
    /\ Cardinality(DOMAIN fs \ GribFiles) = 2 * Len(var_names)
    /\ DOMAIN fs \cap GribFiles = {}

\* a direct call with cropping on whose field is found on a grid with no row or
\* no column within the North American bounds
EmptyWindowCall ==
    /\ call.na_bounds
    /\ call.grib_index \in Slots
    /\ FieldsOf(call.grib_file, call.grib_index) # {}
    /\ RowsWithin = {} \/ ColsWithin = {}

\* C16: empty crop window: with cropping on, when no row of the grid has a
\* latitude within [15, 60] or no column a longitude within [220, 305], the call
\* returns normally, logs one extraction error with date, cycle, lead hour and
\* variable name, writes no artifact, and leaves every file and directory as it
\* was, so that the sibling slots are not affected.
C16_EmptyWindowReported ==
    [][(call.st = "ready" /\ EmptyWindowCall) =>
          /\ call'.st = "returned"
          /\ log' = log (+) SetToBag({LogRec("ERROR", "Error extracting grib file",
                                             <<call.date, call.zulu, call.forecast_hour,
                                               var_names[call.grib_index + 1]>>,
                                             "ValueError")})
          /\ fs' = fs
          /\ dirs' = dirs
          /\ ArtifactPath(call.grib_file.name, call.date, call.grib_index)
                \notin DOMAIN fs']_vars

\* a call on a grid whose rows lie south and north of the window and whose columns
\* lie within it has returned and logged the failure
C16_Witness ==
    /\ call.st = "returned"
    /\ EmptyWindowCall
    /\ env.lats = <<10, 70>>
    /\ env.lons = <<220, 305>>
    /\ Logged(LogRec("ERROR", "Error extracting grib file",
                     <<call.date, call.zulu, call.forecast_hour,
                       var_names[call.grib_index + 1]>>, "ValueError"))
    /\ DOMAIN fs = {call.grib_file.name}

\* the lead hours 000, 003, ..., 180
LeadHoursTo180 == [k \in 1..61 |-> ZFill(Str(3 * (k - 1)), 3)]

\* the lead hours of the download attempts made for the date and cycle given, in
\* the order of the attempts
HoursAttempted(d, z) ==
    LET made == SelectSeq(calls, LAMBDA c : c.op = "download_file" /\ c.date = d /\ c.zulu = z)
    IN  [k \in DOMAIN made |-> made[k].forecast_hour]

\* C17: the lead hours attempted for each (date, cycle) are exactly 000, 003, ...,
\* 180, each once and in ascending order: at every moment the attempts made are
\* the first ones of that list, and when main has returned they are the whole list.
C17_LeadHours ==
    \A a \in DOMAIN date_range, b \in DOMAIN zulus :
        LET attempted == HoursAttempted(date_range[a], zulus[b])
        IN  /\ Len(attempted) <= Len(LeadHoursTo180)
            /\ attempted = SubSeq(LeadHoursTo180, 1, Len(attempted))
            /\ pc = "done" => attempted = LeadHoursTo180

\* the configured end date precedes the configured start date
EmptyRange == strptime(args.end_date) < strptime(args.start_date)

\* C18: empty date range: when the end date precedes the start date, main makes
\* no download, opens nothing, starts no thread and removes or writes no file; it
\* logs the start marker and, unless the data directory of line 119 cannot be
\* created, goes straight to the end marker, logs it and returns.
C18_EmptyRangeRun ==
    (EmptyRange /\ pc # "init") =>
        /\ date_range = <<>>
        /\ calls = <<>>
        /\ \A i \in Slots : threads[i].st = "unstarted"
        /\ DOMAIN fs = {}
        /\ Logged(LogRec("INFO", "Starting run", <<args.start_date, args.end_date>>, ""))
        /\ IF DataRoot \in env.mkdirFail
           THEN pc = "crashed" /\ BagCardinality(log) = 1
           ELSE /\ pc \in {"finish", "done"}
                /\ pc = "finish" => ENABLED MainEnd
                /\ pc = "done" <=>
                      Logged(LogRec("INFO", "Ending run",
                                    <<args.start_date, args.end_date>>, ""))
                /\ BagCardinality(log) = IF pc = "done" THEN 2 ELSE 1

\* main has returned from a run configured from the first day of a month back to
\* the last day of the month before
C18_Witness ==
    /\ pc = "done"
    /\ EmptyRange
    /\ args.start_date = strftime(NextDay(strptime(args.end_date)))
    /\ calls = <<>>
    /\ Logged(LogRec("INFO", "Ending run", <<args.start_date, args.end_date>>, ""))

====
